---- MODULE Spec2Model ----
(***************************************************************************)
(* A model of pyapiary's shared request layer (api_connectors/broker.py):  *)
(* construction of the synchronous and asynchronous executors, proxy       *)
(* resolution from the environment, URL joining, and the request path with *)
(* its retry policy.                                                       *)
(*                                                                         *)
(* Representation.  A Python str that is only compared is a TLA+ string;   *)
(* a str that is sliced (base_url, endpoint, url) is a sequence of         *)
(* one-character strings.  Python None in an Optional[str] is PyNone.  A   *)
(* dict is a function whose DOMAIN is its key set.                         *)
(***************************************************************************)
EXTENDS Integers, Sequences, FiniteSets, TLC

VARIABLES
    environ,         \* os.environ: the raw process environment
    dotenv,          \* the external configuration source read by combine_env_configs
    broker,          \* the executor object (fields of SharedConnectorBase/Broker/AsyncBroker)
    clients,         \* every httpx client created so far, in order of creation
    proxy_decision,  \* return value of the last _collect_proxy_config call
    ctor_args,       \* the arguments the constructor was called with
    calls,           \* the _make_request invocations, by call id
    log,             \* records emitted through self._log
    loop             \* the call whose task the event loop is running, 0 when none is

vars == <<environ, dotenv, broker, clients, proxy_decision, ctor_args, calls, log, loop>>

----------------------------------------------------------------------------
(* Bounds of the model *)

\* at most this many variables are set in os.environ and the config source together
MaxVars == 3
\* longest base_url / endpoint, in characters
MaxLen == 3
\* largest stop_after_attempt(n) a caller passes in retry_kwargs
MaxStop == 3

----------------------------------------------------------------------------
(* Python values *)

PyNone == "<None>"

\* bool(s) for an Optional[str]
Truthy(s) == s # PyNone /\ s # ""

EmptyMap == [k \in {} |-> ""]

\* an Optional[dict]: None, or the dict map
NoneDict == [isNone |-> TRUE, map |-> EmptyMap]

DictOf(m) == [isNone |-> FALSE, map |-> m]

\* bool(d) for an Optional[dict]
DictTruthy(d) == ~d.isNone /\ DOMAIN d.map # {}

\* Optional[Dict[str, HTTPTransport]]; a transport is named by the proxy it was built with
NoMounts == NoneDict

\* dict.get(key) with the default None
Get(d, key) == IF key \in DOMAIN d THEN d[key] ELSE PyNone

----------------------------------------------------------------------------
(* Environment Configuration Resolver *)

ProxyNames == {"ALL_PROXY", "HTTP_PROXY", "HTTPS_PROXY"}

\* str.lower() on the keys the resolver looks up
Lower(key) ==
    CASE key = "ALL_PROXY" -> "all_proxy"
      [] key = "HTTP_PROXY" -> "http_proxy"
      [] key = "HTTPS_PROXY" -> "https_proxy"
      [] OTHER -> key

EnvKeys == ProxyNames \cup {Lower(k) : k \in ProxyNames} \cup {"DOMAINTOOLS_API_KEY"}

P1 == "http://p1:3128"
P2 == "http://p2:3128"

\* values a process environment variable can hold
EnvVals == {"", P1, P2}

\* values of the configuration source: a key without a value is None
FileVals == EnvVals \cup {PyNone}

\* the dicts over keys with at most n entries
Maps(keys, vals, n) ==
    UNION {[d -> vals] : d \in {s \in SUBSET keys : Cardinality(s) <= n}}

\* pyapiary.helpers.combine_env_configs: the process environment merged with the
\* configuration source, the source's values overriding same-named variables
combine_env_configs(env, file) ==
    [k \in DOMAIN env \cup DOMAIN file |->
        IF k \in DOMAIN file THEN file[k] ELSE env[k]]

----------------------------------------------------------------------------
(* Proxy Resolver: SharedConnectorBase._collect_proxy_config *)

\* the comprehension keeping the str-valued entries of env_config
StrItems(d) == [k \in {x \in DOMAIN d : d[x] # PyNone} |-> d[k]]

\* variant of EnvGet: the lower-case key consulted first
EnvGetLowerFirst(source_env, key) ==
    IF Truthy(Get(source_env, Lower(key)))
    THEN Get(source_env, Lower(key))
    ELSE Get(source_env, key)

\* _get: source_env.get(key) or source_env.get(key.lower())
EnvGet(source_env, key) ==
    IF Truthy(Get(source_env, key))
    THEN Get(source_env, key)
    ELSE Get(source_env, Lower(key))

\* the tuple (proxy, mounts) the resolver returns
Decision(p, m) == [called |-> TRUE, proxy |-> p, mounts |-> m]

NotConsulted == [called |-> FALSE, proxy |-> PyNone, mounts |-> NoMounts]

\* variant of ResolveFrom: differing HTTP and HTTPS proxies are not split
ResolveFromNoSplit(source_env) ==
    LET all_proxy == EnvGet(source_env, "ALL_PROXY")
        http_proxy == EnvGet(source_env, "HTTP_PROXY")
        https_proxy == EnvGet(source_env, "HTTPS_PROXY")
        single == IF Truthy(all_proxy) THEN all_proxy
                  ELSE IF Truthy(https_proxy) THEN https_proxy
                  ELSE http_proxy
    IN  IF Truthy(single) THEN Decision(single, NoMounts)
        ELSE Decision(PyNone, NoMounts)

\* lines 155-167: the decision from the chosen source
ResolveFrom(source_env) ==
    LET all_proxy == EnvGet(source_env, "ALL_PROXY")
        http_proxy == EnvGet(source_env, "HTTP_PROXY")
        https_proxy == EnvGet(source_env, "HTTPS_PROXY")
        single == IF Truthy(all_proxy) THEN all_proxy
                  ELSE IF Truthy(https_proxy) THEN https_proxy
                  ELSE http_proxy
    IN  IF Truthy(http_proxy) /\ Truthy(https_proxy) /\ http_proxy # https_proxy
        THEN Decision(PyNone,
                      DictOf([s \in {"http://", "https://"} |->
                                  IF s = "http://" THEN http_proxy ELSE https_proxy]))
        ELSE IF Truthy(single) THEN Decision(single, NoMounts)
        ELSE Decision(PyNone, NoMounts)

\* variant of _collect_proxy_config: trust_env tested before env_config
CollectTrustEnvFirst(env_config, trust_env, env) ==
    IF trust_env THEN ResolveFrom(env)
    ELSE IF DOMAIN env_config # {} THEN ResolveFrom(StrItems(env_config))
    ELSE Decision(PyNone, NoMounts)

\* lines 143-150: the source of the proxy variables
_collect_proxy_config(env_config, trust_env, env) ==
    IF DOMAIN env_config # {} THEN ResolveFrom(StrItems(env_config))
    ELSE IF trust_env THEN ResolveFrom(env)
    ELSE Decision(PyNone, NoMounts)

----------------------------------------------------------------------------
(* Strings that are sliced: sequences of one-character strings *)

Chars == {"/", "a"}

\* the strings over Chars of length at most n
Strings(n) == UNION {[1..k -> Chars] : k \in 0..n}

RECURSIVE rstrip(_, _)
RECURSIVE lstrip(_, _)

\* variant of rstrip: one trailing ch removed
rstripOne(s, ch) ==
    IF s # <<>> /\ s[Len(s)] = ch THEN SubSeq(s, 1, Len(s) - 1) ELSE s

\* str.rstrip(ch): every trailing ch removed
rstrip(s, ch) ==
    IF s # <<>> /\ s[Len(s)] = ch THEN rstrip(SubSeq(s, 1, Len(s) - 1), ch) ELSE s

\* str.lstrip(ch): every leading ch removed
lstrip(s, ch) ==
    IF s # <<>> /\ Head(s) = ch THEN lstrip(Tail(s), ch) ELSE s

\* f"{self.base_url}/{endpoint.lstrip('/')}"
JoinUrl(base_url, endpoint) == base_url \o <<"/">> \o lstrip(endpoint, "/")

----------------------------------------------------------------------------
(* Construction: SharedConnectorBase.__init__, Broker.__init__, AsyncBroker.__init__ *)

\* timeout: int = 10
DefaultTimeout == 10

\* the constructor arguments
CtorArgs(base_url, headers, enable_logging, enable_backoff, load_env_vars, trust_env, proxy, mounts) ==
    [base_url |-> base_url, headers |-> headers, enable_logging |-> enable_logging,
     enable_backoff |-> enable_backoff, timeout |-> DefaultTimeout,
     load_env_vars |-> load_env_vars, trust_env |-> trust_env,
     proxy |-> proxy, mounts |-> mounts]

\* the executor before any constructor ran.  Beside the attributes of
\* SharedConnectorBase: state and error tell how construction ended, session is the
\* index of its client in clients, connector and api_key are set by a connector
\* subclass, scope and exit_exc follow the with statement around the executor,
\* closing holds while __exit__ / __aexit__ is inside the close of the client
NoBroker ==
    [state |-> "none", kind |-> "", error |-> "", base_url |-> <<>>, logger |-> FALSE,
     enable_backoff |-> FALSE, timeout |-> DefaultTimeout, headers |-> EmptyMap,
     trust_env |-> TRUE, proxy |-> PyNone, mounts |-> NoMounts,
     env_config |-> EmptyMap, session |-> 0,
     connector |-> "", api_key |-> PyNone, scope |-> "out", exit_exc |-> "",
     closing |-> FALSE]

\* SharedConnectorBase.__init__
SharedInit(kind, a, env, file) ==
    [state |-> "init", kind |-> kind, error |-> "",
     base_url |-> rstrip(a.base_url, "/"),
     logger |-> a.enable_logging,
     enable_backoff |-> a.enable_backoff,
     timeout |-> a.timeout,
     headers |-> IF DictTruthy(a.headers) THEN a.headers.map ELSE EmptyMap,
     trust_env |-> a.trust_env,
     proxy |-> a.proxy,
     mounts |-> a.mounts,
     env_config |-> IF a.load_env_vars THEN combine_env_configs(env, file) ELSE EmptyMap,
     session |-> 0,
     connector |-> "", api_key |-> PyNone, scope |-> "out", exit_exc |-> "",
     closing |-> FALSE]

\* what a constructor settles about proxies: the executor's proxy and mounts fields,
\* the client's proxy and mounts arguments, and the resolver's answer if it was asked
Settings(self_proxy, self_mounts, arg_proxy, arg_mounts, decision) ==
    [self_proxy |-> self_proxy, self_mounts |-> self_mounts,
     arg_proxy |-> arg_proxy, arg_mounts |-> arg_mounts, decision |-> decision]

\* variant of BrokerSettings: the environment's answer tried before the arguments
BrokerSettingsEnvFirst(self, env) ==
    LET d == _collect_proxy_config(self.env_config, self.trust_env, env)
    IN  IF DictTruthy(d.mounts)
        THEN Settings(self.proxy, d.mounts, PyNone, d.mounts, d)
        ELSE IF Truthy(d.proxy)
        THEN Settings(d.proxy, self.mounts, d.proxy, NoMounts, d)
        ELSE IF DictTruthy(self.mounts)
        THEN Settings(self.proxy, self.mounts, PyNone, self.mounts, d)
        ELSE IF Truthy(self.proxy)
        THEN Settings(self.proxy, self.mounts, self.proxy, NoMounts, d)
        ELSE Settings(self.proxy, self.mounts, PyNone, NoMounts, d)

\* Broker.__init__, lines 224-237
BrokerSettings(self, env) ==
    LET d == _collect_proxy_config(self.env_config, self.trust_env, env)
    IN  IF DictTruthy(self.mounts)
        THEN Settings(self.proxy, self.mounts, PyNone, self.mounts, NotConsulted)
        ELSE IF Truthy(self.proxy)
        THEN Settings(self.proxy, self.mounts, self.proxy, NoMounts, NotConsulted)
        ELSE IF DictTruthy(d.mounts)
        THEN Settings(self.proxy, d.mounts, PyNone, d.mounts, d)
        ELSE IF Truthy(d.proxy)
        THEN Settings(d.proxy, self.mounts, d.proxy, NoMounts, d)
        ELSE Settings(self.proxy, self.mounts, PyNone, NoMounts, d)

\* variant of AsyncRejectsMounts: mounts tolerated beside an explicit proxy
AsyncRejectsMountsWithoutProxy(self) == DictTruthy(self.mounts) /\ ~Truthy(self.proxy)

\* AsyncBroker.__init__, lines 336-339: the ValueError
AsyncRejectsMounts(self) == DictTruthy(self.mounts)

\* AsyncBroker.__init__, line 341: self.proxy or self._collect_proxy_config()[0]
AsyncSettings(self, env) ==
    LET d == _collect_proxy_config(self.env_config, self.trust_env, env)
    IN  IF Truthy(self.proxy)
        THEN Settings(self.proxy, self.mounts, self.proxy, NoMounts, NotConsulted)
        ELSE Settings(self.proxy, self.mounts, d.proxy, NoMounts, d)

\* httpx.Client(**client_args) / httpx.AsyncClient(...)
NewClient(kind, self, s) ==
    [kind |-> kind, timeout |-> self.timeout, trust_env |-> self.trust_env,
     proxy |-> s.arg_proxy, mounts |-> s.arg_mounts, closed |-> FALSE]

\* Broker.__init__
ConstructBroker(a) ==
    /\ broker.state = "none"
    /\ LET self == SharedInit("sync", a, environ, dotenv)
           s == BrokerSettings(self, environ)
       IN  /\ broker' = [self EXCEPT !.state = "ready", !.proxy = s.self_proxy,
                                     !.mounts = s.self_mounts,
                                     !.session = Len(clients) + 1]
           /\ clients' = Append(clients, NewClient("Client", self, s))
           /\ proxy_decision' = s.decision
    /\ ctor_args' = a
    /\ UNCHANGED <<environ, dotenv, calls, log, loop>>

\* AsyncBroker.__init__
ConstructAsyncBroker(a) ==
    /\ broker.state = "none"
    /\ LET self == SharedInit("async", a, environ, dotenv)
           s == AsyncSettings(self, environ)
       IN  IF AsyncRejectsMounts(self)
           THEN /\ broker' = [self EXCEPT !.state = "failed", !.error = "ValueError"]
                /\ UNCHANGED <<clients, proxy_decision, loop>>
           ELSE /\ broker' = [self EXCEPT !.state = "ready",
                                          !.session = Len(clients) + 1]
                /\ clients' = Append(clients, NewClient("AsyncClient", self, s))
                /\ proxy_decision' = s.decision
    /\ ctor_args' = a
    /\ UNCHANGED <<environ, dotenv, calls, log, loop>>

----------------------------------------------------------------------------
(* Retry Policy *)

\* the httpx exceptions a transport raises
RetryableExceptions ==
    {"ConnectError", "ReadTimeout", "WriteError", "RemoteProtocolError", "PoolTimeout"}

OtherExceptions ==
    {"ConnectTimeout", "WriteTimeout", "ReadError", "LocalProtocolError",
     "ProxyError", "UnsupportedProtocol", "DecodingError", "TooManyRedirects"}

TransportExceptions == RetryableExceptions \cup OtherExceptions

\* an error raised by do_request
Error(type, status) == [type |-> type, status |-> status]

NoError == Error("", 0)

\* what the transport does with one request: a response with a status, or an exception
Responds(status) == [exc |-> "", status |-> status]

Throws(type) == [exc |-> type, status |-> 0]

\* variant of _default_retry_exc: 429 not retried
DefaultRetryExcNo429(exc) ==
    IF exc.type = "HTTPStatusError"
    THEN 500 <= exc.status /\ exc.status < 600
    ELSE exc.type \in {"ConnectError", "ReadTimeout", "WriteError",
                       "RemoteProtocolError", "PoolTimeout"}

\* SharedConnectorBase._default_retry_exc
_default_retry_exc(exc) ==
    IF exc.type = "HTTPStatusError"
    THEN exc.status = 429 \/ (500 <= exc.status /\ exc.status < 600)
    ELSE exc.type \in {"ConnectError", "ReadTimeout", "WriteError",
                       "RemoteProtocolError", "PoolTimeout"}

\* stop_after_attempt(3)
DefaultStop == 3

\* wait_exponential(multiplier=1, min=2, max=10)
WaitMultiplier == 1
WaitMin == 2
WaitMax == 10

Max(a, b) == IF a >= b THEN a ELSE b

Min(a, b) == IF a <= b THEN a ELSE b

\* tenacity.wait_exponential.__call__ with exp_base 2
wait_exponential(attempt_number) ==
    Max(Max(0, WaitMin), Min(WaitMultiplier * 2 ^ (attempt_number - 1), WaitMax))

\* retry_kwargs: the keys the caller passes and their values; retry is
\* retry_if_exception of a predicate, stop is stop_after_attempt(stop), wait is
\* wait_none ("none") when passed
RetryKwargs(keys, retry, stop, wait) ==
    [keys |-> keys, retry |-> retry, stop |-> stop, wait |-> wait]

NoRetryKwargs == RetryKwargs({}, "default", DefaultStop, "exponential")

\* lines 280-286 / 390-393: each field the caller left out falls back to its default
ResolveRetry(rk) ==
    [retry |-> IF "retry" \in rk.keys THEN rk.retry ELSE "default",
     stop |-> IF "stop" \in rk.keys THEN rk.stop ELSE DefaultStop,
     wait |-> IF "wait" \in rk.keys THEN rk.wait ELSE "exponential"]

\* the retry strategy applied to the exception of a failed attempt: "default",
\* "always" and "never" are retry_if_exception over a predicate, "retry_always" is
\* tenacity.retry_always
ShouldRetry(retry, exc) ==
    CASE retry = "default" -> _default_retry_exc(exc)
      [] retry = "always" -> TRUE
      [] retry = "retry_always" -> TRUE
      [] OTHER -> FALSE

\* the retry strategy applied to an attempt that returned a response:
\* retry_if_exception answers False for an outcome that did not fail, retry_always
\* answers True
RetriesResponse(retry) == retry = "retry_always"

\* the wait schedule applied after attempt attempt_number
WaitFor(wait, attempt_number) ==
    IF wait = "exponential" THEN wait_exponential(attempt_number) ELSE 0

----------------------------------------------------------------------------
(* The request path: Broker._make_request / AsyncBroker._make_request *)

\* the text of an exception and the names it lists
Message(text, names) == [text |-> text, names |-> names]

NoMessage == Message("", <<>>)

\* the keyword arguments a lookup hands on to get()
RequestKwargs(params, headers, retry_kwargs) ==
    [params |-> params, headers |-> headers, retry_kwargs |-> retry_kwargs]

NoRequestKwargs == RequestKwargs(NoneDict, NoneDict, NoRetryKwargs)

\* one call on the executor.  method, url, params, json, data and headers are what
\* session.request is given.  via, query, kwargs and kw are the connector method and
\* its arguments when the call came through one, headers_arg the caller's headers
\* argument, beside the calls that were in a backoff delay when this one began.
\* invocations counts the requests the transport was given, unsent the attempts the
\* closed client refused.  pc is "called" while the coroutine of an asynchronous
\* connector method has been made and not begun, "waiting" while session.request
\* has the request with the transport
IdleCall ==
    [pc |-> "idle", method |-> "", endpoint |-> <<>>, url |-> <<>>,
     headers |-> EmptyMap, policy |-> ResolveRetry(NoRetryKwargs),
     attempt_number |-> 0, invocations |-> 0, outcomes |-> <<>>,
     delay |-> 0, result |-> "", status |-> 0, error |-> NoError,
     params |-> NoneDict, json |-> NoneDict, data |-> NoneDict,
     via |-> "", query |-> <<>>, kwargs |-> EmptyMap, kw |-> NoRequestKwargs,
     headers_arg |-> NoneDict, message |-> NoMessage, beside |-> {}, unsent |-> 0]

\* httpx.Response.raise_for_status: anything but 2xx raises HTTPStatusError
IsSuccess(status) == 200 <= status /\ status <= 299

\* do_request on a transport outcome: the error raised, NoError when it returns
do_request(outcome) ==
    IF outcome.exc # "" THEN Error(outcome.exc, 0)
    ELSE IF IsSuccess(outcome.status) THEN NoError
    ELSE Error("HTTPStatusError", outcome.status)

\* variant of Decide: the stop condition counts retries, not attempts
DecideStopsOneEarly(enable_backoff, policy, attempt_number, exc) ==
    IF exc = NoError THEN "return"
    ELSE IF ~enable_backoff THEN "raise"
    ELSE IF ~ShouldRetry(policy.retry, exc) THEN "raise"
    ELSE IF attempt_number + 1 >= policy.stop THEN "raise"
    ELSE "sleep"

\* variant of Decide: reraise left at False, exhaustion raises RetryError
DecideWrapped(enable_backoff, policy, attempt_number, exc) ==
    IF exc = NoError THEN "return"
    ELSE IF ~enable_backoff THEN "raise"
    ELSE IF ~ShouldRetry(policy.retry, exc) THEN "raise"
    ELSE IF attempt_number >= policy.stop THEN "raise RetryError"
    ELSE "sleep"

\* variant of Decide: the retry wrapper applied whatever enable_backoff is
DecideAlwaysRetry(enable_backoff, policy, attempt_number, exc) ==
    IF exc = NoError THEN "return"
    ELSE IF attempt_number >= policy.stop THEN "raise"
    ELSE "sleep"

\* variant of Decide: one attempt counter for the whole executor
DecideSharedAttempts(enable_backoff, policy, attempt_number, exc) ==
    IF exc = NoError THEN "return"
    ELSE IF ~enable_backoff THEN "raise"
    ELSE IF ~ShouldRetry(policy.retry, exc) THEN "raise"
    ELSE IF \E d \in DOMAIN calls : calls[d].attempt_number >= policy.stop THEN "raise"
    ELSE "sleep"

\* what follows an attempt: tenacity's iter() with reraise=True when backoff is
\* enabled (lines 279-287 / 388-399), the bare do_request otherwise
Decide(enable_backoff, policy, attempt_number, exc) ==
    IF exc = NoError THEN "return"
    ELSE IF ~enable_backoff THEN "raise"
    ELSE IF ~ShouldRetry(policy.retry, exc) THEN "raise"
    ELSE IF attempt_number >= policy.stop THEN "raise"
    ELSE "sleep"

\* what follows an attempt on the executor of this kind.  Broker._make_request calls
\* retry(reraise=True, **rk)(do_request) (line 287): tenacity puts the outcome of every
\* attempt, a returned response included, to the retry strategy, and when the stop
\* condition ends a run of returned responses reraise has nothing to re-raise and the
\* RetryError itself is raised.  AsyncBroker._make_request returns from inside
\* "with attempt" (lines 396-398): a returned response leaves the loop at once and
\* only a failed attempt reaches the strategy
DecideOn(kind, enable_backoff, policy, attempt_number, exc) ==
    IF exc = NoError /\ enable_backoff /\ kind = "sync" /\ RetriesResponse(policy.retry)
    THEN IF attempt_number >= policy.stop THEN "raise RetryError" ELSE "sleep"
    ELSE Decide(enable_backoff, policy, attempt_number, exc)

\* self._log(message): a record when the executor has a logger
Logged(c, msg, exc) ==
    IF broker.logger THEN Append(log, [call |-> c, msg |-> msg, error |-> exc]) ELSE log

\* lines 289-297 / 401-409: the except clauses around call()
LogOnRaise(c, how, exc) ==
    IF how = "raise RetryError" THEN Logged(c, "Retry failed", exc)
    ELSE IF exc.type = "HTTPStatusError" THEN Logged(c, "HTTP error", exc)
    ELSE log

\* variant of SentHeaders: the caller's fields laid over the executor's
SentHeadersMerged(headers, defaults) ==
    IF DictTruthy(headers)
    THEN [k \in DOMAIN defaults \cup DOMAIN headers.map |->
            IF k \in DOMAIN headers.map THEN headers.map[k] ELSE defaults[k]]
    ELSE defaults

\* lines 269 / 378: headers=headers or self.headers
SentHeaders(headers, defaults) ==
    IF DictTruthy(headers) THEN headers.map ELSE defaults

\* the event loop once the task of call c has started or resumed.  The calls of the
\* asynchronous executor are coroutines on one event loop, which runs one task at a
\* time, from one await to the next; the calls of the synchronous executor run on
\* the threads of their callers and hold no loop
Task(c) == IF broker.kind = "async" THEN c ELSE 0

\* call c can take a step: the loop is idle, or it is running the task of c
Scheduled(c) == loop \in {0, c}

\* _make_request up to the first attempt: the URL, the headers, the request arguments
\* and the retry policy
Request(method, endpoint, params, json, data, headers, retry_kwargs) ==
    [IdleCall EXCEPT
        !.pc = "attempt",
        !.method = method,
        !.endpoint = endpoint,
        !.url = JoinUrl(broker.base_url, endpoint),
        !.headers = SentHeaders(headers, broker.headers),
        !.headers_arg = headers,
        !.params = params,
        !.json = json,
        !.data = data,
        !.policy = IF broker.enable_backoff
                   THEN ResolveRetry(retry_kwargs)
                   ELSE IdleCall.policy,
        !.attempt_number = 1,
        !.beside = {d \in DOMAIN calls : calls[d].pc = "sleep"}]

\* a call of _make_request with neither params nor a body
StartRequest(c, method, endpoint, headers, retry_kwargs) ==
    /\ broker.state \in {"ready", "closed"}
    /\ calls[c].pc = "idle"
    /\ Scheduled(c)
    /\ calls' = [calls EXCEPT ![c] =
                    Request(method, endpoint, NoneDict, NoneDict, NoneDict,
                            headers, retry_kwargs)]
    /\ loop' = Task(c)
    /\ UNCHANGED <<environ, dotenv, broker, clients, proxy_decision, ctor_args, log>>

\* session.request on a client that has been closed: httpx raises RuntimeError
\* ("Cannot send a request, as the client has been closed.") and the transport is
\* not asked
ClosedClientError == Error("RuntimeError", 0)

\* variant of Settle: the delay of an asynchronous call slept through on the event
\* loop (time.sleep in place of the awaited sleep)
SettleSleepingOnLoop(c, seen, exc, status) ==
    LET how == DecideOn(broker.kind, broker.enable_backoff, seen.policy,
                        seen.attempt_number, exc)
    IN  /\ calls' = [calls EXCEPT ![c] =
                CASE how = "return" ->
                        [seen EXCEPT !.pc = "done", !.result = "returned",
                                     !.status = status]
                  [] how = "sleep" ->
                        [seen EXCEPT !.pc = "sleep",
                                     !.delay = WaitFor(seen.policy.wait, seen.attempt_number)]
                  [] OTHER ->
                        [seen EXCEPT !.pc = "done",
                                     !.result = IF how = "raise" THEN "raised"
                                                ELSE "raised RetryError",
                                     !.error = exc]]
        /\ log' = IF how \in {"return", "sleep"} THEN log ELSE LogOnRaise(c, how, exc)
        /\ loop' = IF how = "sleep" THEN Task(c) ELSE 0

\* the end of one attempt of call c, seen being the call after it, exc the error
\* do_request raised (NoError when it returned a response with this status): the
\* retry decision, and the except clauses when the call raises.  A call that returns
\* or raises has ended its task; a call that retries waits out its delay inside
\* tenacity: retry(...) (line 287) sleeps on the thread of the call, AsyncRetrying
\* (line 396) awaits its sleep, which the caller cannot replace since only retry,
\* stop and wait are taken from retry_kwargs (lines 391-393), and the loop is given up
Settle(c, seen, exc, status) ==
    LET how == DecideOn(broker.kind, broker.enable_backoff, seen.policy,
                        seen.attempt_number, exc)
    IN  /\ calls' = [calls EXCEPT ![c] =
                CASE how = "return" ->
                        [seen EXCEPT !.pc = "done", !.result = "returned",
                                     !.status = status]
                  [] how = "sleep" ->
                        [seen EXCEPT !.pc = "sleep",
                                     !.delay = WaitFor(seen.policy.wait, seen.attempt_number)]
                  [] OTHER ->
                        [seen EXCEPT !.pc = "done",
                                     !.result = IF how = "raise" THEN "raised"
                                                ELSE "raised RetryError",
                                     !.error = exc]]
        /\ log' = IF how \in {"return", "sleep"} THEN log ELSE LogOnRaise(c, how, exc)
        /\ loop' = 0

\* do_request up to self.session.request (lines 266 / 375): a closed client refuses
\* and the attempt ends there; an open one hands the request to the transport and
\* the call waits for the answer (the thread blocks in session.request, the task is
\* suspended at "await self.session.request" and gives the loop up), the other calls
\* and the with statement going on
SendRequest(c) ==
    /\ calls[c].pc = "attempt"
    /\ Scheduled(c)
    /\ IF clients[broker.session].closed
       THEN Settle(c, [calls[c] EXCEPT !.unsent = @ + 1], ClosedClientError, 0)
       ELSE /\ calls' = [calls EXCEPT ![c].pc = "waiting", ![c].invocations = @ + 1]
            /\ log' = log
            /\ loop' = 0
    /\ UNCHANGED <<environ, dotenv, broker, clients, proxy_decision, ctor_args>>

\* the transport answers the request of call c, whatever became of the client in the
\* meantime: raise_for_status, then the call returns, raises or goes to sleep before
\* its next attempt
Receive(c, outcome) ==
    /\ calls[c].pc = "waiting"
    /\ Scheduled(c)
    /\ Settle(c, [calls[c] EXCEPT !.outcomes = Append(@, outcome)],
              do_request(outcome), outcome.status)
    /\ UNCHANGED <<environ, dotenv, broker, clients, proxy_decision, ctor_args>>

\* the backoff delay is over and the call goes on to its next attempt: its thread
\* wakes up, or its task is resumed by the loop
Wake(c) ==
    /\ calls[c].pc = "sleep"
    /\ Scheduled(c)
    /\ calls' = [calls EXCEPT ![c].pc = "attempt",
                              ![c].attempt_number = @ + 1,
                              ![c].delay = 0]
    /\ loop' = Task(c)
    /\ UNCHANGED <<environ, dotenv, broker, clients, proxy_decision, ctor_args, log>>

----------------------------------------------------------------------------
(* Resource release: the with statement around an executor *)

\* variant of CloseSession: the client left open when an exception ends the scope
CloseSessionOnCleanExit(client, exc_type) ==
    IF exc_type = "" THEN [client EXCEPT !.closed = TRUE] ELSE client

\* lines 244-250 / 353-359: self.session.close() / await self.session.aclose(),
\* whatever exc_type is
CloseSession(client, exc_type) == [client EXCEPT !.closed = TRUE]

\* an exception of the caller's own code in the with block
BlockExceptions == {"KeyError"}

\* the exc_type __exit__ / __aexit__ can be given: None, the error a call raised
\* (tenacity's RetryError when that is what it raised), or an exception of the block
ScopeExceptions ==
    {""} \cup {calls[c].error.type : c \in {d \in DOMAIN calls : calls[d].result = "raised"}}
         \cup {"RetryError" : c \in {d \in DOMAIN calls :
                                        calls[d].result = "raised RetryError"}}
         \cup BlockExceptions

\* __enter__ / __aenter__: return self, on an executor that may have been closed
\* before, by the caller that is not inside __exit__.  On the event loop the with
\* statement, like every task, runs when no other task is between two awaits
Enter ==
    /\ broker.state \in {"ready", "closed"}
    /\ ~broker.closing
    /\ loop = 0
    /\ broker' = [broker EXCEPT !.scope = "in", !.exit_exc = ""]
    /\ UNCHANGED <<environ, dotenv, clients, proxy_decision, ctor_args, calls, log, loop>>

\* __exit__ / __aexit__ is called, at the end of a with block or on its own, whatever
\* the calls of the executor are doing: close() / aclose() marks the client closed
\* and goes on to close the transport
Exit(exc_type) ==
    /\ broker.state \in {"ready", "closed"}
    /\ ~broker.closing
    /\ loop = 0
    /\ clients' = [clients EXCEPT ![broker.session] = CloseSession(@, exc_type)]
    /\ broker' = [broker EXCEPT !.state = IF clients'[broker.session].closed
                                          THEN "closed" ELSE @,
                                !.closing = TRUE,
                                !.exit_exc = exc_type]
    /\ UNCHANGED <<environ, dotenv, proxy_decision, ctor_args, calls, log, loop>>

\* the close is over and __exit__ / __aexit__ returns None: the with block is left
ExitReturn ==
    /\ broker.closing
    /\ loop = 0
    /\ broker' = [broker EXCEPT !.closing = FALSE, !.scope = "left"]
    /\ UNCHANGED <<environ, dotenv, clients, proxy_decision, ctor_args, calls, log, loop>>

----------------------------------------------------------------------------
(* Connectors: DomainToolsConnector, IPQSConnector and their asynchronous twins *)

\* A str that is cut at slashes is a sequence of pieces, each "/" or a slash-free run.
DomainToolsBase == <<"https:", "/", "/", "api.domaintools.com">>

IPQSBase == <<"https:", "/", "/", "ipqualityscore.com", "/", "api", "/", "json">>

Connector(name, service, kind, base_url, key_name) ==
    [name |-> name, service |-> service, kind |-> kind, base_url |-> base_url,
     key_name |-> key_name]

DomainToolsConnector ==
    Connector("DomainToolsConnector", "DomainTools", "sync", DomainToolsBase,
              "DOMAINTOOLS_API_KEY")

AsyncDomainToolsConnector ==
    Connector("AsyncDomainToolsConnector", "DomainTools", "async", DomainToolsBase,
              "DOMAINTOOLS_API_KEY")

IPQSConnector ==
    Connector("IPQSConnector", "IPQS", "sync", IPQSBase, "IPQS_API_KEY")

AsyncIPQSConnector ==
    Connector("AsyncIPQSConnector", "IPQS", "async", IPQSBase, "IPQS_API_KEY")

Connectors ==
    {DomainToolsConnector, AsyncDomainToolsConnector, IPQSConnector, AsyncIPQSConnector}

\* the constructor arguments of a connector: those of the executor and api_key
ConnectorArgs(api_key, a) == [api_key |-> api_key] @@ a

\* Broker.__init__ / AsyncBroker.__init__ as super().__init__ runs it: the object, the
\* client it created if any, and the resolver's answer
BaseInit(kind, a) ==
    LET self == SharedInit(kind, a, environ, dotenv)
        s == IF kind = "sync" THEN BrokerSettings(self, environ)
             ELSE AsyncSettings(self, environ)
    IN  IF kind = "async" /\ AsyncRejectsMounts(self)
        THEN [self |-> [self EXCEPT !.state = "failed", !.error = "ValueError"],
              created |-> <<>>,
              decision |-> proxy_decision]
        ELSE [self |-> [self EXCEPT !.state = "ready", !.proxy = s.self_proxy,
                                    !.mounts = s.self_mounts,
                                    !.session = Len(clients) + 1],
              created |-> <<NewClient(IF kind = "sync" THEN "Client" ELSE "AsyncClient",
                                      self, s)>>,
              decision |-> s.decision]

\* variant of ResolveKey: the configuration value tried before the argument
ResolveKeyEnvFirst(api_key, env_config, key_name) ==
    IF Truthy(Get(env_config, key_name)) THEN Get(env_config, key_name) ELSE api_key

\* api_key or self.env_config.get(KEY)
ResolveKey(api_key, env_config, key_name) ==
    IF Truthy(api_key) THEN api_key ELSE Get(env_config, key_name)

\* variant of ConnectorHeaders: the DomainTools key sent as a bearer token
ConnectorHeadersBearer(conn, api_key) ==
    IF conn.service = "DomainTools"
    THEN "Authorization" :> api_key
    ELSE "Content-Type" :> "application/x-www-form-urlencoded"

\* the argument of self.headers.update
ConnectorHeaders(conn, api_key) ==
    IF conn.service = "DomainTools"
    THEN "X-API-KEY" :> api_key
    ELSE "Content-Type" :> "application/x-www-form-urlencoded"

\* the __init__ of a connector: the executor's constructor with the connector's base
\* URL, then the API key, then the headers
ConstructConnector(conn, a) ==
    /\ broker.state = "none"
    /\ LET base == BaseInit(conn.kind, [a EXCEPT !.base_url = conn.base_url])
           self == [base.self EXCEPT !.connector = conn.name]
           key == ResolveKey(a.api_key, self.env_config, conn.key_name)
       IN  /\ broker' = IF self.state = "failed" THEN self
                        ELSE IF ~Truthy(key)
                        THEN [self EXCEPT !.state = "failed", !.error = "ValueError",
                                          !.api_key = key]
                        ELSE [self EXCEPT !.api_key = key,
                                          !.headers = ConnectorHeaders(conn, key) @@ @]
           /\ clients' = clients \o base.created
           /\ proxy_decision' = base.decision
    /\ ctor_args' = [a EXCEPT !.base_url = conn.base_url]
    /\ UNCHANGED <<environ, dotenv, calls, log, loop>>

\* the names Iris Investigate accepts
IRIS_INVESTIGATE_ALLOWED_PARAMS ==
    {"active", "adsense", "baidu_analytics", "contact_name", "contact_phone",
     "contact_street", "create_date", "domain", "email", "email_dns_soa",
     "email_domain", "expiration_date", "facebook", "first_seen_since",
     "first_seen_within", "google_analytics", "google_analytics_4",
     "google_tag_manager", "historical_email", "historical_free_text",
     "historical_registrant", "hotjar", "iana_id", "ip", "ip_country_code",
     "mailserver_domain", "mailserver_host", "mailserver_ip", "matomo",
     "nameserver_domain", "nameserver_host", "nameserver_ip", "not_tagged_with_all",
     "not_tagged_with_any", "rank", "redirect_domain", "registrant",
     "registrant_org", "registrar", "risk_score", "search_hash", "server_type",
     "ssl_alt_names", "ssl_common_name", "ssl_duration", "ssl_email", "ssl_hash",
     "ssl_issuer_common_name", "ssl_not_after", "ssl_not_before", "ssl_org",
     "ssl_subject", "statcounter_project", "statcounter_security", "tagged_with_all",
     "tagged_with_any", "tld", "website_title", "whois", "yandex_metrica"}

\* the keyword names the calls below are made with, in the order of str.__lt__
ParamNames == <<"Domain", "active", "domain", "headers", "not_a_real_param">>

\* a < b on str
StrLess(a, b) ==
    \E i, j \in 1..Len(ParamNames) : ParamNames[i] = a /\ ParamNames[j] = b /\ i < j

RECURSIVE sortedDescending(_)
RECURSIVE sorted(_)

\* variant of sorted: the greatest name first
sortedDescending(names) ==
    IF names = {} THEN <<>>
    ELSE LET last == CHOOSE x \in names : \A y \in names : ~StrLess(x, y)
         IN  <<last>> \o sortedDescending(names \ {last})

\* sorted(names)
sorted(names) ==
    IF names = {} THEN <<>>
    ELSE LET first == CHOOSE x \in names : \A y \in names : ~StrLess(y, x)
         IN  <<first>> \o sorted(names \ {first})

\* _validate_iris_investigate_params: the message of the ValueError, NoMessage when
\* the parameters pass
_validate_iris_investigate_params(params) ==
    IF DOMAIN params = {}
    THEN Message("At least one Iris Investigate parameter is required.", <<>>)
    ELSE LET invalid == DOMAIN params \ IRIS_INVESTIGATE_ALLOWED_PARAMS
         IN  IF invalid # {}
             THEN Message("Invalid Iris Investigate parameters", sorted(invalid))
             ELSE NoMessage

\* a connector method can be called on the connector of this service
Callable(c, service) ==
    /\ broker.state \in {"ready", "closed"}
    /\ broker.connector \in {conn.name : conn \in {x \in Connectors : x.service = service}}
    /\ calls[c].pc = "idle"
    /\ Scheduled(c)

\* log_method_call with a query argument: "<caller> called with query: <query>"
LogQuery(c) == Logged(c, "called with query", NoError)

\* log_method_call without one: "<caller> called with kwargs_keys=[...]"
LogKwargs(c) == Logged(c, "called with kwargs_keys", NoError)

IrisEndpoint == <<"/", "v1", "/", "iris-investigate">>

\* f"v1/{query}/whois/parsed"
WhoisEndpoint(query) == <<"v1", "/">> \o query \o <<"/", "whois", "/", "parsed">>

\* f"v1/{query}/reverse-ip"
ReverseIpEndpoint(query) == <<"v1", "/">> \o query \o <<"/", "reverse-ip">>

\* variant of NameserverEndpoint: the path of the reverse IP lookup
NameserverEndpointAsReverseIp(query) == <<"v1", "/">> \o query \o <<"/", "reverse-ip">>

\* f"v1/{query}/name-server-domains"
NameserverEndpoint(query) == <<"v1", "/">> \o query \o <<"/", "name-server-domains">>

UrlEndpoint == <<"/", "url", "/">>

\* {"url": query, "key": self.api_key, **kwargs}
FormBody(query, api_key, kwargs) ==
    kwargs @@ ("url" :> query) @@ ("key" :> api_key)

\* the body of iris_investigate: the validation, then self.get with the keyword
\* arguments as params
IrisBody(kwargs) ==
    LET refused == _validate_iris_investigate_params(kwargs)
        raised == [IdleCall EXCEPT !.pc = "done", !.result = "raised",
                                   !.error = Error("ValueError", 0),
                                   !.message = refused]
        sent == Request("GET", IrisEndpoint, DictOf(kwargs), NoneDict, NoneDict,
                        NoneDict, NoRetryKwargs)
    IN  [(IF refused # NoMessage THEN raised ELSE sent) EXCEPT
            !.via = "iris_investigate", !.kwargs = kwargs]

\* the endpoint of a lookup method
LookupEndpoint(via, query) ==
    CASE via = "parsed_whois" -> WhoisEndpoint(query)
      [] via = "reverse_ip" -> ReverseIpEndpoint(query)
      [] via = "reverse_nameserver" -> NameserverEndpoint(query)

\* the body of a lookup method: self.get(endpoint, **kwargs)
LookupBody(via, query, kw) ==
    [Request("GET", LookupEndpoint(via, query), kw.params, NoneDict, NoneDict,
             kw.headers, kw.retry_kwargs) EXCEPT
        !.via = via, !.query = query, !.kw = kw]

\* the body of malicious_url: self.post("/url/", data=...)
ScanBody(query, kwargs) ==
    [Request("POST", UrlEndpoint, NoneDict, NoneDict,
             DictOf(FormBody(query, broker.api_key, kwargs)),
             NoneDict, NoRetryKwargs) EXCEPT
        !.via = "malicious_url", !.query = query, !.kwargs = kwargs]

\* the body of the connector method the call came through
Body(call) ==
    CASE call.via = "iris_investigate" -> IrisBody(call.kwargs)
      [] call.via = "malicious_url" -> ScanBody(call.query, call.kwargs)
      [] OTHER -> LookupBody(call.via, call.query, call.kw)

\* func(self, *args, **kwargs) on an "async def": the coroutine with its arguments,
\* nothing of the body run
Coroutine(via, query, kwargs, kw) ==
    [IdleCall EXCEPT !.pc = "called", !.via = via, !.query = query,
                     !.kwargs = kwargs, !.kw = kw]

\* a call of a connector method through the wrapper of log_method_call (broker.py
\* 15-42): the wrapper, a plain function, writes the log record and calls the method.
\* On the synchronous connector the body runs in the call; on the asynchronous one
\* the call returns the coroutine and the body waits for Await
MethodCall(c, via, query, kwargs, kw) ==
    calls' = [calls EXCEPT ![c] =
                IF broker.kind = "async" THEN Coroutine(via, query, kwargs, kw)
                ELSE Body(Coroutine(via, query, kwargs, kw))]

\* await on the coroutine of an asynchronous connector method: the body runs, up to
\* the ValueError of the validation or on to the request
Await(c) ==
    /\ calls[c].pc = "called"
    /\ Scheduled(c)
    /\ calls' = [calls EXCEPT ![c] = Body(calls[c])]
    /\ loop' = IF calls'[c].pc = "attempt" THEN Task(c) ELSE 0
    /\ UNCHANGED <<environ, dotenv, broker, clients, proxy_decision, ctor_args, log>>

\* DomainToolsConnector.iris_investigate / AsyncDomainToolsConnector.iris_investigate
iris_investigate(c, kwargs) ==
    /\ Callable(c, "DomainTools")
    /\ MethodCall(c, "iris_investigate", <<>>, kwargs, NoRequestKwargs)
    /\ log' = LogKwargs(c)
    /\ UNCHANGED <<environ, dotenv, broker, clients, proxy_decision, ctor_args, loop>>

\* a lookup method of the DomainTools connectors
Lookup(c, via, query, kw) ==
    /\ Callable(c, "DomainTools")
    /\ MethodCall(c, via, query, EmptyMap, kw)
    /\ log' = LogQuery(c)
    /\ UNCHANGED <<environ, dotenv, broker, clients, proxy_decision, ctor_args, loop>>

\* parsed_whois, sync and async
parsed_whois(c, query, kw) == Lookup(c, "parsed_whois", query, kw)

\* reverse_ip, sync and async
reverse_ip(c, query, kw) == Lookup(c, "reverse_ip", query, kw)

\* reverse_nameserver, sync and async
reverse_nameserver(c, query, kw) == Lookup(c, "reverse_nameserver", query, kw)

\* IPQSConnector.malicious_url / AsyncIPQSConnector.malicious_url
malicious_url(c, query, kwargs) ==
    /\ Callable(c, "IPQS")
    /\ MethodCall(c, "malicious_url", query, kwargs, NoRequestKwargs)
    /\ log' = LogQuery(c)
    /\ UNCHANGED <<environ, dotenv, broker, clients, proxy_decision, ctor_args, loop>>

----------------------------------------------------------------------------
(* Specifications.  Every behaviour starts before construction; the            *)
(* specifications differ in the environments and arguments they draw.          *)

NoArgs == CtorArgs(<<>>, NoneDict, FALSE, FALSE, FALSE, TRUE, PyNone, NoMounts)

\* the state before construction, in environment env with configuration source file
Start(env, file) ==
    /\ environ = env
    /\ dotenv = file
    /\ broker = NoBroker
    /\ clients = <<>>
    /\ proxy_decision = NotConsulted
    /\ ctor_args = NoArgs
    /\ calls = [c \in {1} |-> IdleCall]
    /\ log = <<>>
    /\ loop = 0

BaseUrl == <<"a">>

\* the same, with the calls of several callers
StartMany(env, file, ids) ==
    /\ environ = env
    /\ dotenv = file
    /\ broker = NoBroker
    /\ clients = <<>>
    /\ proxy_decision = NotConsulted
    /\ ctor_args = NoArgs
    /\ calls = [c \in ids |-> IdleCall]
    /\ log = <<>>
    /\ loop = 0

(* Proxy resolution: every environment and configuration source with at most   *)
(* MaxVars variables, an executor constructed without explicit proxy or mounts. *)
InitProxy ==
    \E env \in Maps(EnvKeys, EnvVals, MaxVars) :
        \E file \in Maps(EnvKeys, FileVals, MaxVars - Cardinality(DOMAIN env)) :
            Start(env, file)

ProxyCtorArgs ==
    {CtorArgs(BaseUrl, NoneDict, FALSE, FALSE, load_env_vars, trust_env, PyNone, NoMounts) :
        load_env_vars \in BOOLEAN, trust_env \in BOOLEAN}

NextProxy ==
    \E a \in ProxyCtorArgs :
        \/ ConstructBroker(a)
        \/ ConstructAsyncBroker(a)

SpecProxy == InitProxy /\ [][NextProxy]_vars

(* Construction: every combination of the constructor's arguments, in the      *)
(* environments over the upper-case proxy variables.                           *)
PX == "http://explicit:3128"

ExplicitProxies == {PyNone, "", PX}

ExplicitMounts ==
    {NoMounts, DictOf(EmptyMap),
     DictOf([s \in {"http://", "https://"} |->
                IF s = "http://" THEN "http://m1:3128" ELSE "http://m2:3128"])}

ExplicitHeaders == {NoneDict, DictOf([k \in {"Accept"} |-> "json"])}

CtorKeys == ProxyNames \cup {"DOMAINTOOLS_API_KEY"}

InitCtor ==
    \E env \in Maps(CtorKeys, {P1, P2}, MaxVars) :
        \E file \in Maps(CtorKeys, {P1, P2}, MaxVars - Cardinality(DOMAIN env)) :
            Start(env, file)

AllCtorArgs ==
    {CtorArgs(BaseUrl, headers, FALSE, FALSE, load_env_vars, trust_env, proxy, mounts) :
        headers \in ExplicitHeaders, load_env_vars \in BOOLEAN, trust_env \in BOOLEAN,
        proxy \in ExplicitProxies, mounts \in ExplicitMounts}

NextCtor ==
    \E a \in AllCtorArgs :
        \/ ConstructBroker(a)
        \/ ConstructAsyncBroker(a)

SpecCtor == InitCtor /\ [][NextCtor]_vars

----------------------------------------------------------------------------
(* Proxy resolution, as the specification words it *)

\* the variable name is set in source: its upper-case or lower-case key holds a
\* non-empty string
IsSet(source, name) ==
    Truthy(Get(source, name)) \/ Truthy(Get(source, Lower(name)))

\* its value: the upper-case key's if that is set, else the lower-case key's
ValueOf(source, name) ==
    IF Truthy(Get(source, name)) THEN Get(source, name) ELSE Get(source, Lower(name))

IsNoProxy(d) == d.proxy = PyNone /\ d.mounts = NoMounts

IsSingleProxy(d) == Truthy(d.proxy) /\ d.mounts = NoMounts

IsSplitProxy(d) ==
    /\ d.proxy = PyNone
    /\ ~d.mounts.isNone
    /\ DOMAIN d.mounts.map = {"http://", "https://"}

\* the resolver had a source to read: the merged EnvConfig, or the raw environment
HasSource == proxy_decision.called /\ (DOMAIN broker.env_config # {} \/ broker.trust_env)

ChosenSource == IF DOMAIN broker.env_config # {} THEN broker.env_config ELSE environ

\* C5: for every combination of ALL_PROXY, HTTP_PROXY and HTTPS_PROXY set or unset in
\* the chosen source, the resolver returns SingleProxy when HTTP_PROXY and HTTPS_PROXY
\* are both set and equal, SplitProxy (the http:// transport on HTTP_PROXY, the
\* https:// transport on HTTPS_PROXY) when both are set and differ, SingleProxy when
\* only one of the three is set, and NoProxy when none is set.
C5_ProxyVariants ==
    HasSource =>
        LET src == ChosenSource
            d == proxy_decision
            nset == Cardinality({n \in ProxyNames : IsSet(src, n)})
            both == IsSet(src, "HTTP_PROXY") /\ IsSet(src, "HTTPS_PROXY")
            equal == ValueOf(src, "HTTP_PROXY") = ValueOf(src, "HTTPS_PROXY")
        IN  /\ (both /\ equal) => IsSingleProxy(d)
            /\ (both /\ ~equal) =>
                    /\ IsSplitProxy(d)
                    /\ d.mounts.map["http://"] = ValueOf(src, "HTTP_PROXY")
                    /\ d.mounts.map["https://"] = ValueOf(src, "HTTPS_PROXY")
            /\ nset = 1 => IsSingleProxy(d)
            /\ nset = 0 => IsNoProxy(d)
            /\ IsSingleProxy(d) \/ IsSplitProxy(d) \/ IsNoProxy(d)

\* HTTP_PROXY and HTTPS_PROXY set and different, ALL_PROXY set as well: SplitProxy
C5_Witness ==
    /\ HasSource
    /\ \A n \in ProxyNames : IsSet(ChosenSource, n)
    /\ ValueOf(ChosenSource, "HTTP_PROXY") # ValueOf(ChosenSource, "HTTPS_PROXY")
    /\ IsSplitProxy(proxy_decision)

\* C6: whenever the resolver returns SingleProxy, its URL is the value of ALL_PROXY if
\* set, else of HTTPS_PROXY if set, else of HTTP_PROXY, each name read from its
\* upper-case key before its lower-case key.
C6_SinglePrecedence ==
    (HasSource /\ IsSingleProxy(proxy_decision)) =>
        LET src == ChosenSource
        IN  proxy_decision.proxy =
                IF IsSet(src, "ALL_PROXY") THEN ValueOf(src, "ALL_PROXY")
                ELSE IF IsSet(src, "HTTPS_PROXY") THEN ValueOf(src, "HTTPS_PROXY")
                ELSE ValueOf(src, "HTTP_PROXY")

\* SingleProxy taken from an upper-case key whose lower-case key holds another value
C6_Witness ==
    /\ HasSource
    /\ IsSingleProxy(proxy_decision)
    /\ \E n \in ProxyNames :
          /\ Truthy(Get(ChosenSource, n))
          /\ Truthy(Get(ChosenSource, Lower(n)))
          /\ Get(ChosenSource, n) # Get(ChosenSource, Lower(n))
          /\ proxy_decision.proxy = Get(ChosenSource, n)

\* C7: the resolver reads the merged EnvConfig alone when that is non-empty, whatever
\* trust_env is; else the raw process environment when trust_env is true; else it
\* returns NoProxy whatever the process environment holds.
C7_SourceChoice ==
    proxy_decision.called =>
        IF DOMAIN broker.env_config # {}
        THEN proxy_decision = ResolveFrom(StrItems(broker.env_config))
        ELSE IF broker.trust_env
        THEN proxy_decision = ResolveFrom(environ)
        ELSE IsNoProxy(proxy_decision)

\* trust_env is true and the EnvConfig is non-empty: the decision is the EnvConfig's,
\* and the raw environment alone would have given another
C7_Witness ==
    /\ proxy_decision.called
    /\ broker.trust_env
    /\ DOMAIN broker.env_config # {}
    /\ proxy_decision = ResolveFrom(StrItems(broker.env_config))
    /\ IsSingleProxy(ResolveFrom(environ))
    /\ proxy_decision # ResolveFrom(environ)

----------------------------------------------------------------------------
(* Construction *)

Session == clients[broker.session]

\* the caller supplied mounts, or a proxy
GaveMounts == DictTruthy(ctor_args.mounts)

GaveProxy == Truthy(ctor_args.proxy)

\* C8: in every environment and configuration, when the caller passes explicit mounts or
\* an explicit proxy the client is built with that setting (the mounts when both are
\* given to the synchronous executor) and the resolver is not consulted; it is consulted
\* only when neither is supplied.
C8_ExplicitWins ==
    broker.state = "ready" =>
        /\ (GaveMounts \/ GaveProxy) <=> ~proxy_decision.called
        /\ GaveMounts =>
                /\ Session.mounts = ctor_args.mounts
                /\ Session.proxy = PyNone
                /\ broker.mounts = ctor_args.mounts
        /\ (GaveProxy /\ ~GaveMounts) =>
                /\ Session.proxy = ctor_args.proxy
                /\ Session.mounts = NoMounts
                /\ broker.proxy = ctor_args.proxy

\* an explicit proxy given where the environment alone resolves to another proxy
C8_Witness ==
    /\ broker.state = "ready"
    /\ GaveProxy
    /\ Session.proxy = ctor_args.proxy
    /\ IsSingleProxy(_collect_proxy_config(broker.env_config, broker.trust_env, environ))

\* C9: constructing an asynchronous executor with mounts always raises at construction,
\* whatever proxy, trust_env, load_env_vars and headers are, and no client is created.
C9_AsyncMountsRejected ==
    (broker.kind = "async" /\ GaveMounts) =>
        /\ broker.state = "failed"
        /\ broker.error = "ValueError"
        /\ broker.session = 0
        /\ clients = <<>>

\* rejected although an explicit proxy was given as well
C9_Witness ==
    /\ broker.kind = "async"
    /\ GaveMounts
    /\ GaveProxy
    /\ DictTruthy(ctor_args.headers)
    /\ broker.state = "failed"

----------------------------------------------------------------------------
(* Requests *)

Endpoint == <<"/", "a">>

Methods == {"GET", "POST"}

\* the retry_kwargs a caller passes: any subset of the three fields
AllRetryKwargs ==
    {RetryKwargs(keys, retry, stop, "none") :
        keys \in SUBSET {"retry", "stop", "wait"},
        retry \in {"always", "never"},
        stop \in 1..MaxStop}

\* retry_kwargs that leave the retry predicate at its default
DefaultPredicateKwargs == {rk \in AllRetryKwargs : "retry" \notin rk.keys}

SomeOutcomes ==
    {Responds(200), Responds(404), Responds(429), Responds(500),
     Throws("ConnectError"), Throws("ConnectTimeout")}

Statuses == {200, 204, 299, 300, 301, 400, 404, 428, 429, 430, 499, 500, 503, 599, 600}

AllOutcomes ==
    {Responds(st) : st \in Statuses} \cup {Throws(t) : t \in TransportExceptions}

(* The request path under every retry policy, over a few transport outcomes. *)
InitReq == Start(EmptyMap, EmptyMap)

ReqCtorArgs ==
    {CtorArgs(BaseUrl, NoneDict, enable_logging, enable_backoff, FALSE, TRUE, PyNone, NoMounts) :
        enable_logging \in BOOLEAN, enable_backoff \in BOOLEAN}

NextReq ==
    \/ \E a \in ReqCtorArgs :
        \/ ConstructBroker(a)
        \/ ConstructAsyncBroker(a)
    \/ \E c \in DOMAIN calls, method \in Methods, rk \in AllRetryKwargs :
        StartRequest(c, method, Endpoint, NoneDict, rk)
    \/ \E c \in DOMAIN calls : SendRequest(c)
    \/ \E c \in DOMAIN calls, outcome \in SomeOutcomes : Receive(c, outcome)
    \/ \E c \in DOMAIN calls : Wake(c)

SpecReq == InitReq /\ [][NextReq]_vars

(* The request path under the default retry predicate, over every kind of      *)
(* transport outcome.                                                           *)
InitPred == Start(EmptyMap, EmptyMap)

PredCtorArgs ==
    {CtorArgs(BaseUrl, NoneDict, FALSE, enable_backoff, FALSE, TRUE, PyNone, NoMounts) :
        enable_backoff \in BOOLEAN}

NextPred ==
    \/ \E a \in PredCtorArgs :
        \/ ConstructBroker(a)
        \/ ConstructAsyncBroker(a)
    \/ \E c \in DOMAIN calls, rk \in DefaultPredicateKwargs :
        StartRequest(c, "GET", Endpoint, NoneDict, rk)
    \/ \E c \in DOMAIN calls : SendRequest(c)
    \/ \E c \in DOMAIN calls, outcome \in AllOutcomes : Receive(c, outcome)
    \/ \E c \in DOMAIN calls : Wake(c)

SpecPred == InitPred /\ [][NextPred]_vars

(* URL joining: every base_url and endpoint of at most MaxLen characters. *)
InitUrl == Start(EmptyMap, EmptyMap)

UrlStrings == Strings(MaxLen)

UrlCtorArgs ==
    {CtorArgs(base_url, NoneDict, FALSE, FALSE, FALSE, TRUE, PyNone, NoMounts) :
        base_url \in UrlStrings}

UrlOutcomes == {Responds(200), Responds(404)}

NextUrl ==
    \/ \E a \in UrlCtorArgs :
        \/ ConstructBroker(a)
        \/ ConstructAsyncBroker(a)
    \/ \E c \in DOMAIN calls, method \in Methods, endpoint \in UrlStrings :
        StartRequest(c, method, endpoint, NoneDict, NoRetryKwargs)
    \/ \E c \in DOMAIN calls : SendRequest(c)
    \/ \E c \in DOMAIN calls, outcome \in UrlOutcomes : Receive(c, outcome)

SpecUrl == InitUrl /\ [][NextUrl]_vars

----------------------------------------------------------------------------
(* The request path, as the specification words it *)

\* the transport outcome is a failure of the attempt: an exception or a non-2xx status
Fails(outcome) == outcome.exc # "" \/ ~(200 <= outcome.status /\ outcome.status <= 299)

\* the error a failed attempt raises
ErrorOf(outcome) ==
    IF outcome.exc # "" THEN Error(outcome.exc, 0)
    ELSE Error("HTTPStatusError", outcome.status)

Last(seq) == seq[Len(seq)]

\* the call's bookkeeping: one recorded outcome per transport invocation, but for the
\* invocation the transport has yet to answer
Counted(call) ==
    call.invocations = Len(call.outcomes) + (IF call.pc = "waiting" THEN 1 ELSE 0)

\* C1: with backoff enabled, a predicate that always returns true and max_attempts = 3,
\* a request whose transport fails on the first two attempts and succeeds on the third
\* does not end before the third attempt, returns the third attempt's response, and
\* has invoked the transport exactly 3 times.
C1_FailTwiceThenSucceed ==
    \A c \in DOMAIN calls :
        LET call == calls[c]
        IN  (broker.enable_backoff /\ call.pc # "idle"
             /\ call.policy.retry = "always" /\ call.policy.stop = 3) =>
                /\ Counted(call)
                /\ call.invocations <= 3
                /\ (call.invocations < 3 /\ \A i \in 1..Len(call.outcomes) :
                                                Fails(call.outcomes[i]))
                        => call.pc # "done"
                /\ (Len(call.outcomes) = 3 /\ Fails(call.outcomes[1])
                    /\ Fails(call.outcomes[2]) /\ ~Fails(call.outcomes[3])) =>
                        /\ call.pc = "done"
                        /\ call.result = "returned"
                        /\ call.status = call.outcomes[3].status
                        /\ call.invocations = 3

\* two failed attempts, then a response that is returned
C1_Witness ==
    \E c \in DOMAIN calls :
        /\ broker.enable_backoff
        /\ calls[c].policy.retry = "always"
        /\ calls[c].policy.stop = 3
        /\ Len(calls[c].outcomes) = 3
        /\ Fails(calls[c].outcomes[1])
        /\ Fails(calls[c].outcomes[2])
        /\ calls[c].result = "returned"
        /\ calls[c].invocations = 3

\* the error is retryable under the call's retry predicate
RetryableFor(retry, exc) ==
    \/ retry = "always"
    \/ /\ retry = "default"
       /\ \/ exc.type = "HTTPStatusError" /\ (exc.status = 429 \/ exc.status \in 500..599)
          \/ exc.type \in RetryableExceptions

\* every attempt so far failed with an error the call's predicate retries
AllRetryable(call) ==
    \A i \in 1..Len(call.outcomes) :
        /\ Fails(call.outcomes[i])
        /\ RetryableFor(call.policy.retry, ErrorOf(call.outcomes[i]))

\* C2: with backoff enabled and a transport that fails with a retryable error on every
\* attempt, the request ends only after exactly max_attempts invocations, by raising the
\* final attempt's own error (what the same attempt raises with backoff disabled),
\* never a retry-exhaustion wrapper.
C2_ExhaustionRaisesLastError ==
    \A c \in DOMAIN calls :
        LET call == calls[c]
        IN  (broker.enable_backoff /\ call.pc # "idle" /\ AllRetryable(call)) =>
                /\ Counted(call)
                /\ call.invocations <= call.policy.stop
                /\ call.pc = "done" <=> Len(call.outcomes) = call.policy.stop
                /\ call.pc = "done" =>
                        /\ call.result = "raised"
                        /\ call.error = ErrorOf(Last(call.outcomes))

\* three retryable failures under the default policy, the last one raised
C2_Witness ==
    \E c \in DOMAIN calls :
        /\ broker.enable_backoff
        /\ calls[c].policy.retry = "default"
        /\ calls[c].pc = "done"
        /\ calls[c].invocations = 3
        /\ AllRetryable(calls[c])
        /\ calls[c].outcomes[2] # calls[c].outcomes[3]
        /\ calls[c].error = ErrorOf(calls[c].outcomes[3])

\* C3: with backoff disabled every request invokes the transport exactly once, whatever
\* the outcome, and a failure of that attempt (transport error or non-2xx status) is
\* raised to the caller as it is.
C3_NoBackoffOnce ==
    \A c \in DOMAIN calls :
        LET call == calls[c]
        IN  (~broker.enable_backoff /\ call.pc # "idle") =>
                /\ Counted(call)
                /\ call.pc \in {"attempt", "waiting", "done"}
                /\ call.pc = "attempt" <=> call.invocations = 0
                /\ call.pc \in {"waiting", "done"} <=> call.invocations = 1
                /\ call.pc = "done" =>
                        IF Fails(call.outcomes[1])
                        THEN /\ call.result = "raised"
                             /\ call.error = ErrorOf(call.outcomes[1])
                        ELSE /\ call.result = "returned"
                             /\ call.status = call.outcomes[1].status

\* a retryable failure raised after one invocation, backoff being disabled
C3_Witness ==
    \E c \in DOMAIN calls :
        /\ ~broker.enable_backoff
        /\ calls[c].pc = "done"
        /\ calls[c].invocations = 1
        /\ calls[c].result = "raised"
        /\ calls[c].error = Error("HTTPStatusError", 500)

\* the errors the specification calls retryable
SpecRetryable(exc) ==
    \/ exc.type = "HTTPStatusError" /\ (exc.status = 429 \/ exc.status \in 500..599)
    \/ exc.type \in {"ConnectError", "ReadTimeout", "WriteError",
                     "RemoteProtocolError", "PoolTimeout"}

\* C4: the default retry predicate is true exactly for a status failure with status 429
\* or in 500..599 and for a connection-establishment failure, read timeout, write
\* failure, malformed-response failure or pool-exhaustion timeout; so with backoff
\* enabled and the default predicate a request is retried only after such errors, and
\* an attempt failing with any other error ends the request by raising that error (after
\* exactly one invocation when it is the first attempt).
C4_DefaultPredicate ==
    \A c \in DOMAIN calls :
        LET call == calls[c]
            n == Len(call.outcomes)
        IN  (broker.enable_backoff /\ call.pc # "idle" /\ call.policy.retry = "default") =>
                /\ Counted(call)
                /\ \A i \in 1..n :
                        Fails(call.outcomes[i]) =>
                            (_default_retry_exc(ErrorOf(call.outcomes[i]))
                                <=> SpecRetryable(ErrorOf(call.outcomes[i])))
                /\ \A i \in 1..(n - 1) :
                        Fails(call.outcomes[i]) /\ SpecRetryable(ErrorOf(call.outcomes[i]))
                /\ (n > 0 /\ Fails(call.outcomes[n])
                    /\ ~SpecRetryable(ErrorOf(call.outcomes[n]))) =>
                        /\ call.pc = "done"
                        /\ call.result = "raised"
                        /\ call.error = ErrorOf(call.outcomes[n])
                /\ (n > 0 /\ Fails(call.outcomes[n])
                    /\ SpecRetryable(ErrorOf(call.outcomes[n]))
                    /\ n < call.policy.stop) => call.pc # "done"

\* a 4xx other than 429 raised after one invocation although three attempts were allowed
C4_Witness ==
    \E c \in DOMAIN calls :
        /\ broker.enable_backoff
        /\ calls[c].policy.retry = "default"
        /\ calls[c].policy.stop = 3
        /\ calls[c].pc = "done"
        /\ calls[c].invocations = 1
        /\ calls[c].result = "raised"
        /\ calls[c].error = Error("HTTPStatusError", 404)

----------------------------------------------------------------------------
(* URL joining, as the specification words it *)

\* k slashes
Slashes(k) == [i \in 1..k |-> "/"]

EndsWithSlash(s) == s # <<>> /\ s[Len(s)] = "/"

StartsWithSlash(s) == s # <<>> /\ s[1] = "/"

\* s with one trailing slash removed, if it has one
DropOneTrailing(s) == IF EndsWithSlash(s) THEN SubSeq(s, 1, Len(s) - 1) ELSE s

\* s with one leading slash removed, if it has one
DropOneLeading(s) == IF StartsWithSlash(s) THEN SubSeq(s, 2, Len(s)) ELSE s

\* url is base_url without its k trailing slashes, one slash, and endpoint without its
\* j leading slashes, and no further slash borders the joining one
JoinedAt(url, base_url, endpoint, k, j) ==
    LET base == SubSeq(base_url, 1, Len(base_url) - k)
        rest == SubSeq(endpoint, j + 1, Len(endpoint))
    IN  /\ base_url = base \o Slashes(k)
        /\ endpoint = Slashes(j) \o rest
        /\ ~EndsWithSlash(base)
        /\ ~StartsWithSlash(rest)
        /\ url = base \o <<"/">> \o rest

\* C10 (as amended): for all base_url/endpoint pairs, URL joining strips every trailing
\* slash of base_url and every leading slash of endpoint, so the request URL has exactly
\* one slash between the base part and the endpoint part, however many slashes ended
\* base_url or began endpoint.
C10_JoinStripsAllSlashes ==
    \A c \in DOMAIN calls :
        calls[c].pc # "idle" =>
            \E k \in 0..Len(ctor_args.base_url), j \in 0..Len(calls[c].endpoint) :
                JoinedAt(calls[c].url, ctor_args.base_url, calls[c].endpoint, k, j)

\* two trailing and two leading slashes joined into one
C10_Witness ==
    \E c \in DOMAIN calls :
        /\ calls[c].pc = "done"
        /\ JoinedAt(calls[c].url, ctor_args.base_url, calls[c].endpoint, 2, 2)

\* C10 (as stated): URL joining strips exactly one trailing slash from base_url and one
\* leading slash from endpoint.
C10_StripsExactlyOne ==
    \A c \in DOMAIN calls :
        calls[c].pc # "idle" =>
            calls[c].url = DropOneTrailing(ctor_args.base_url) \o <<"/">>
                                \o DropOneLeading(calls[c].endpoint)

----------------------------------------------------------------------------
(* C11: logging of propagated errors *)

\* the log holds a record of call c carrying the error exc
HasLogRecord(c, exc) ==
    \E i \in 1..Len(log) : log[i].call = c /\ log[i].error = exc

\* C11 (as stated): when logging is enabled, every error a request propagates to the
\* caller (a transport error as well as a status error, with backoff enabled or
\* disabled, the last error after exhausted retries included) has a log record by the
\* time it is raised.
C11_EveryRaisedErrorLogged ==
    \A c \in DOMAIN calls :
        (broker.logger /\ calls[c].pc = "done" /\ calls[c].result # "returned") =>
            HasLogRecord(c, calls[c].error)

----------------------------------------------------------------------------
(* The connector methods, on every connector, over a few keyword arguments.    *)

\* the most keyword arguments one call is given
MaxParams == 2

Range(seq) == {seq[i] : i \in 1..Len(seq)}

IrisKwargs == Maps(Range(ParamNames), {"true", "x"}, MaxParams)

ApiKey == "test_key"

MethodCtorArgs ==
    {ConnectorArgs(ApiKey, CtorArgs(<<>>, headers, TRUE, enable_backoff,
                                    FALSE, TRUE, PyNone, NoMounts)) :
        headers \in {NoneDict, DictOf("Accept" :> "json")},
        enable_backoff \in BOOLEAN}

Queries == {<<"example.com">>, <<"8.8.8.8">>, <<"a", "/", "b">>}

LookupKwargs ==
    {RequestKwargs(params, headers, NoRetryKwargs) :
        params \in {NoneDict, DictOf("exclude_total_count" :> "true")},
        headers \in {NoneDict, DictOf(EmptyMap), DictOf("Accept" :> "xml")}}

ScanQueries == {"example.com", "http://a/b"}

ScanKwargs == Maps({"strictness", "fast", "key"}, {"1"}, MaxParams)

MethodOutcomes == {Responds(200), Responds(404), Responds(503), Throws("ConnectError")}

InitMethods == Start(EmptyMap, EmptyMap)

NextMethods ==
    \/ \E conn \in Connectors, a \in MethodCtorArgs : ConstructConnector(conn, a)
    \/ \E c \in DOMAIN calls, kwargs \in IrisKwargs : iris_investigate(c, kwargs)
    \/ \E c \in DOMAIN calls, query \in Queries, kw \in LookupKwargs :
        \/ parsed_whois(c, query, kw)
        \/ reverse_ip(c, query, kw)
        \/ reverse_nameserver(c, query, kw)
    \/ \E c \in DOMAIN calls, query \in ScanQueries, kwargs \in ScanKwargs :
        malicious_url(c, query, kwargs)
    \/ \E c \in DOMAIN calls : Await(c)
    \/ \E c \in DOMAIN calls : SendRequest(c)
    \/ \E c \in DOMAIN calls, outcome \in MethodOutcomes : Receive(c, outcome)
    \/ \E c \in DOMAIN calls : Wake(c)
    \/ Enter
    \/ \E exc_type \in ScopeExceptions : Exit(exc_type)
    \/ ExitReturn

SpecMethods == InitMethods /\ [][NextMethods]_vars

----------------------------------------------------------------------------
(* C12: validation of the Iris Investigate parameters *)

\* seq lists exactly the names of the set, each once, in ascending order
ListsSorted(seq, names) ==
    /\ Range(seq) = names
    /\ Len(seq) = Cardinality(names)
    /\ \A i, j \in 1..Len(seq) : i < j => StrLess(seq[i], seq[j])

\* the call was refused before the session was asked anything
RefusedUnsent(call) ==
    /\ call.pc = "done"
    /\ call.result = "raised"
    /\ call.error.type = "ValueError"
    /\ call.invocations = 0
    /\ call.outcomes = <<>>
    /\ call.url = <<>>

\* C12: iris_investigate (sync and async) called with no parameter, or with a name
\* outside the allow-list, raises a validation error before the transport is invoked,
\* and for unknown names the error lists exactly the offending names, sorted; called
\* with allow-listed names only it issues a GET to /v1/iris-investigate with the
\* parameters forwarded unchanged as the query parameters.  The asynchronous method
\* does so when its coroutine is awaited; until then nothing is sent or raised.
C12_IrisValidation ==
    \A c \in DOMAIN calls :
        LET call == calls[c]
            names == DOMAIN call.kwargs
            unknown == names \ IRIS_INVESTIGATE_ALLOWED_PARAMS
        IN  call.via = "iris_investigate" =>
              IF call.pc = "called"
              THEN /\ broker.kind = "async"
                   /\ call.result = ""
                   /\ call.invocations = 0
                   /\ call.url = <<>>
              ELSE
                /\ (names = {} \/ unknown # {}) => RefusedUnsent(call)
                /\ unknown # {} => ListsSorted(call.message.names, unknown)
                /\ (names # {} /\ unknown = {}) =>
                        /\ call.pc # "idle"
                        /\ call.method = "GET"
                        /\ call.url = DomainToolsBase \o <<"/", "v1", "/", "iris-investigate">>
                        /\ call.params = DictOf(call.kwargs)
                        /\ call.message = NoMessage
                        /\ call.error.type # "ValueError"
                        /\ Counted(call)

\* the asynchronous connector refused a call with two unknown names, naming both in
\* order
C12_Witness ==
    \E c \in DOMAIN calls :
        /\ calls[c].via = "iris_investigate"
        /\ RefusedUnsent(calls[c])
        /\ calls[c].message.names = <<"Domain", "not_a_real_param">>
        /\ broker.kind = "async"

----------------------------------------------------------------------------
(* Construction of the connectors and of the bare executors, over every        *)
(* placement of the API keys, and the scope around what was constructed.       *)

ConnKeys == {"DOMAINTOOLS_API_KEY", "IPQS_API_KEY"}

EnvKey == "env_key"

FileKey == "file_key"

ArgKey == "arg_key"

InitConn ==
    \E env \in Maps(ConnKeys, {"", EnvKey}, MaxVars),
       file \in Maps(ConnKeys, {"", FileKey, PyNone}, MaxVars) : Start(env, file)

ConnCtorArgs ==
    {ConnectorArgs(api_key, CtorArgs(<<>>, NoneDict, FALSE, FALSE, load_env_vars, TRUE,
                                     PyNone, mounts)) :
        api_key \in {PyNone, "", ArgKey},
        load_env_vars \in BOOLEAN,
        mounts \in {NoMounts, DictOf("all://" :> PX)}}

NextConn ==
    \/ \E conn \in Connectors, a \in ConnCtorArgs : ConstructConnector(conn, a)
    \/ \E a \in ConnCtorArgs :
        \/ ConstructBroker(a)
        \/ ConstructAsyncBroker(a)
    \/ Enter
    \/ \E exc_type \in ScopeExceptions : Exit(exc_type)
    \/ ExitReturn

SpecConn == InitConn /\ [][NextConn]_vars

----------------------------------------------------------------------------
(* C13: the API key of a connector *)

\* the connector that was constructed
Constructed == CHOOSE conn \in Connectors : conn.name = broker.connector

\* the merged environment/config of the construction: what SharedConnectorBase
\* loads, which is nothing unless load_env_vars is set
MergedConfig ==
    IF ctor_args.load_env_vars THEN combine_env_configs(environ, dotenv) ELSE EmptyMap

\* the construction was given mounts its executor refuses
MountsRefused == Constructed.kind = "async" /\ DictTruthy(ctor_args.mounts)

\* C13: for every connector type, construction with no explicit API key and no
\* matching entry in the merged environment/config raises a configuration error at
\* construction; when a key is available the connector holds the explicit key if one
\* was given, otherwise the environment/config value.
C13_ApiKeyResolution ==
    broker.connector # "" =>
        LET explicit == ctor_args.api_key
            entry == Get(MergedConfig, Constructed.key_name)
        IN  /\ (~Truthy(explicit) /\ ~Truthy(entry)) =>
                    broker.state = "failed" /\ broker.error = "ValueError"
            /\ (Truthy(explicit) /\ ~MountsRefused) =>
                    broker.state \in {"ready", "closed"} /\ broker.api_key = explicit
            /\ (~Truthy(explicit) /\ Truthy(entry) /\ ~MountsRefused) =>
                    broker.state \in {"ready", "closed"} /\ broker.api_key = entry

\* an explicit key was used although the merged configuration had another
C13_Witness ==
    /\ broker.connector = "AsyncIPQSConnector"
    /\ broker.state = "ready"
    /\ ctor_args.api_key = ArgKey
    /\ Get(MergedConfig, "IPQS_API_KEY") = FileKey
    /\ broker.api_key = ArgKey

----------------------------------------------------------------------------
(* Several calls on one executor, in every interleaving, inside the scope of   *)
(* a with statement.                                                           *)

\* the most calls in flight on the executor
MaxCalls == 2

InitCalls == StartMany(EmptyMap, EmptyMap, 1..MaxCalls)

CallsCtorArgs ==
    {CtorArgs(BaseUrl, NoneDict, TRUE, enable_backoff, FALSE, TRUE, PyNone, NoMounts) :
        enable_backoff \in BOOLEAN}

\* one attempt only, or the default limit
CallsRetryKwargs ==
    {RetryKwargs({"stop"}, "default", stop, "exponential") : stop \in {1, DefaultStop}}

CallsOutcomes == {Responds(200), Responds(503)}

\* the scope is left cleanly or by the status error of a call
CallsExits == {"", "HTTPStatusError"}

NextCalls ==
    \/ \E a \in CallsCtorArgs :
        \/ ConstructBroker(a)
        \/ ConstructAsyncBroker(a)
    \/ Enter
    \/ \E c \in DOMAIN calls, rk \in CallsRetryKwargs :
        StartRequest(c, "GET", Endpoint, NoneDict, rk)
    \/ \E c \in DOMAIN calls : SendRequest(c)
    \/ \E c \in DOMAIN calls, outcome \in CallsOutcomes : Receive(c, outcome)
    \/ \E c \in DOMAIN calls : Wake(c)
    \/ \E exc_type \in CallsExits : exc_type \in ScopeExceptions /\ Exit(exc_type)
    \/ ExitReturn

SpecCalls == InitCalls /\ [][NextCalls]_vars

----------------------------------------------------------------------------
(* C14: one client per executor, closed when the scope is left *)

\* C14: an executor creates exactly one HTTP client at construction; after any
\* sequence of calls (successful, failed or retried) the executor still holds that
\* same client, open, and no other client was created; leaving the scope of the
\* executor closes that client, also when the scope is left by an error.
C14_OneClientClosedOnExit ==
    /\ broker.state = "none" => clients = <<>>
    /\ broker.state \in {"ready", "closed"} =>
            /\ Len(clients) = 1
            /\ broker.session = 1
            /\ clients[1].kind = IF broker.kind = "sync" THEN "Client" ELSE "AsyncClient"
    /\ broker.state = "ready" => ~clients[broker.session].closed
    /\ broker.scope = "left" => clients[broker.session].closed

\* the scope was left by the error of a call, after another call was retried, and
\* the one client is closed
C14_Witness ==
    /\ broker.scope = "left"
    /\ broker.exit_exc = "HTTPStatusError"
    /\ Len(clients) = 1
    /\ clients[1].closed
    /\ \E c, d \in DOMAIN calls :
        /\ calls[c].result = "raised"
        /\ calls[d].result = "returned"
        /\ calls[d].invocations > 1

----------------------------------------------------------------------------
(* One call under every combination of default and per-call headers.          *)

DefaultHeaders ==
    {NoneDict, DictOf(EmptyMap), DictOf("Accept" :> "json" @@ "X-Token" :> "t")}

CallHeaders ==
    {NoneDict, DictOf(EmptyMap), DictOf("Accept" :> "xml"), DictOf("X-Trace" :> "1")}

InitHeaders == Start(EmptyMap, EmptyMap)

HeadersCtorArgs ==
    {CtorArgs(BaseUrl, headers, FALSE, enable_backoff, FALSE, TRUE, PyNone, NoMounts) :
        headers \in DefaultHeaders, enable_backoff \in BOOLEAN}

HeadersOutcomes == {Responds(200), Responds(503)}

NextHeaders ==
    \/ \E a \in HeadersCtorArgs :
        \/ ConstructBroker(a)
        \/ ConstructAsyncBroker(a)
    \/ \E c \in DOMAIN calls, method \in Methods, headers \in CallHeaders :
        StartRequest(c, method, Endpoint, headers, NoRetryKwargs)
    \/ \E c \in DOMAIN calls : SendRequest(c)
    \/ \E c \in DOMAIN calls, outcome \in HeadersOutcomes : Receive(c, outcome)
    \/ \E c \in DOMAIN calls : Wake(c)

SpecHeaders == InitHeaders /\ [][NextHeaders]_vars

----------------------------------------------------------------------------
(* C15: per-call headers replace the default headers *)

\* the caller supplied headers: a dict with at least one field
Supplied(d) == ~d.isNone /\ DOMAIN d.map # {}

\* the executor's default headers: the constructor's, none when it was given none
DefaultsOf(a) == IF a.headers.isNone THEN EmptyMap ELSE a.headers.map

\* C15: for every request, when the caller supplies per-call headers the request is
\* sent with exactly those headers in place of the executor's default headers, with
\* no field-by-field merge, and when the caller supplies none the request is sent
\* with the executor's default headers.
C15_HeadersReplaceDefaults ==
    \A c \in DOMAIN calls :
        calls[c].pc # "idle" =>
            /\ Supplied(calls[c].headers_arg) =>
                    calls[c].headers = calls[c].headers_arg.map
            /\ ~Supplied(calls[c].headers_arg) =>
                    calls[c].headers = DefaultsOf(ctor_args)

\* a request went out with the caller's one header and none of the two defaults
C15_Witness ==
    \E c \in DOMAIN calls :
        /\ calls[c].invocations > 0
        /\ DOMAIN DefaultsOf(ctor_args) = {"Accept", "X-Token"}
        /\ DOMAIN calls[c].headers_arg.map = {"X-Trace"}
        /\ DOMAIN calls[c].headers = {"X-Trace"}

----------------------------------------------------------------------------
(* C16: a backoff delay on the asynchronous executor leaves other calls free *)

\* no call other than c and d is running between two awaits
NoThirdRuns(c, d) ==
    \A e \in DOMAIN calls \ {c, d} : calls[e].pc # "attempt"

\* C16: on the asynchronous executor, a call waiting out a backoff delay does not
\* block the other calls on the same executor: in every interleaving, while one call
\* is in its delay it does not hold the event loop, and any other call can issue its
\* request, have the transport answer it, and leave a delay of its own.
C16_BackoffDoesNotBlock ==
    (broker.kind = "async" /\ broker.state = "ready") =>
        \A c, d \in DOMAIN calls :
            (c # d /\ calls[c].pc = "sleep" /\ NoThirdRuns(c, d)) =>
                /\ loop # c
                /\ calls[d].pc = "idle" =>
                        ENABLED StartRequest(d, "GET", Endpoint, NoneDict, NoRetryKwargs)
                /\ calls[d].pc = "attempt" => ENABLED SendRequest(d)
                /\ calls[d].pc = "waiting" => ENABLED Receive(d, Responds(200))
                /\ calls[d].pc = "sleep" => ENABLED Wake(d)

\* the second call began and returned while the first was in its first delay
C16_Witness ==
    /\ broker.kind = "async"
    /\ calls[1].pc = "sleep"
    /\ calls[1].attempt_number = 1
    /\ 1 \in calls[2].beside
    /\ calls[2].pc = "done"
    /\ calls[2].result = "returned"

----------------------------------------------------------------------------
(* C17: the requests of the lookup and scan methods *)

\* {base}/v1/{q}/<path> on the DomainTools API
LookupUrl(query, path) == DomainToolsBase \o <<"/", "v1", "/">> \o query \o <<"/">> \o path

\* the form body {url: q, key: <api_key>, ...extra}
IsFormBody(body, query, api_key, extra) ==
    /\ DOMAIN body = {"url", "key"} \cup DOMAIN extra
    /\ \A k \in DOMAIN extra : body[k] = extra[k]
    /\ "url" \notin DOMAIN extra => body["url"] = query
    /\ "key" \notin DOMAIN extra => body["key"] = api_key

\* C17: parsed_whois(q) issues GET {base}/v1/{q}/whois/parsed, reverse_ip(q) issues
\* GET {base}/v1/{q}/reverse-ip, reverse_nameserver(q) issues
\* GET {base}/v1/{q}/name-server-domains, and malicious_url(q, **extra) issues
\* POST {base}/url/ with the form body {url: q, key: <api_key>, ...extra}; each
\* returns the response of the transport unchanged.  The asynchronous methods do so
\* when their coroutine is awaited; until then nothing is sent.
C17_MethodRequests ==
    \A c \in DOMAIN calls :
        LET call == calls[c]
            begun == call.pc # "called"
        IN  /\ ~begun => (broker.kind = "async" /\ call.invocations = 0)
            /\ (call.via = "parsed_whois" /\ begun) =>
                    /\ call.method = "GET"
                    /\ call.url = LookupUrl(call.query, <<"whois", "/", "parsed">>)
            /\ (call.via = "reverse_ip" /\ begun) =>
                    /\ call.method = "GET"
                    /\ call.url = LookupUrl(call.query, <<"reverse-ip">>)
            /\ (call.via = "reverse_nameserver" /\ begun) =>
                    /\ call.method = "GET"
                    /\ call.url = LookupUrl(call.query, <<"name-server-domains">>)
            /\ (call.via = "malicious_url" /\ begun) =>
                    /\ call.method = "POST"
                    /\ call.url = IPQSBase \o <<"/", "url", "/">>
                    /\ ~call.data.isNone
                    /\ IsFormBody(call.data.map, call.query, ApiKey, call.kwargs)
                    /\ call.json.isNone
                    /\ call.params.isNone
            /\ (call.via # "" /\ call.result = "returned") =>
                    /\ ~Fails(Last(call.outcomes))
                    /\ call.status = Last(call.outcomes).status

\* the asynchronous scan of a URL with one extra field returned its response
C17_Witness ==
    \E c \in DOMAIN calls :
        /\ broker.connector = "AsyncIPQSConnector"
        /\ calls[c].via = "malicious_url"
        /\ calls[c].query = "example.com"
        /\ calls[c].data.map = ("url" :> "example.com" @@ "key" :> ApiKey @@ "strictness" :> "1")
        /\ calls[c].result = "returned"

----------------------------------------------------------------------------
(* C18: the API key header of the DomainTools requests *)

\* C18 (as stated): every request issued through a DomainTools connector method
\* (parsed_whois, reverse_ip, reverse_nameserver, iris_investigate; sync and async)
\* carries the header X-API-KEY equal to the connector's API key, also when the
\* caller passes per-call headers through the method's keyword arguments.
C18_ApiKeyHeaderSent ==
    \A c \in DOMAIN calls :
        (/\ calls[c].via \in {"parsed_whois", "reverse_ip", "reverse_nameserver",
                              "iris_investigate"}
         /\ calls[c].invocations > 0) =>
            /\ "X-API-KEY" \in DOMAIN calls[c].headers
            /\ calls[c].headers["X-API-KEY"] = broker.api_key

\* C18 (as amended): every request issued through a DomainTools connector method
\* carries the header X-API-KEY equal to the connector's API key when the caller
\* passes no per-call headers; when the caller passes per-call headers through the
\* keyword arguments of a lookup method, the request carries exactly those headers,
\* and X-API-KEY only if the caller put it among them.
C18_ApiKeyHeaderUnlessReplaced ==
    \A c \in DOMAIN calls :
        (/\ calls[c].via \in {"parsed_whois", "reverse_ip", "reverse_nameserver",
                              "iris_investigate"}
         /\ calls[c].invocations > 0) =>
            IF Supplied(calls[c].headers_arg)
            THEN calls[c].headers = calls[c].headers_arg.map
            ELSE /\ "X-API-KEY" \in DOMAIN calls[c].headers
                 /\ calls[c].headers["X-API-KEY"] = broker.api_key
                 /\ broker.api_key = ApiKey

\* a lookup given an Accept header was sent without the API key, and answered
C18_Witness ==
    \E c \in DOMAIN calls :
        /\ calls[c].via = "reverse_ip"
        /\ calls[c].headers_arg = DictOf("Accept" :> "xml")
        /\ calls[c].invocations > 0
        /\ "X-API-KEY" \notin DOMAIN calls[c].headers
        /\ "X-API-KEY" \in DOMAIN broker.headers

----------------------------------------------------------------------------
(* C19: clients of failed constructions *)

\* C19 (as stated): when construction of an executor or connector fails (missing API
\* key on a connector, or mounts on the asynchronous executor), no HTTP client created
\* during that construction is left open: in every reachable state each open client
\* is the session of a successfully constructed executor, which can close it.
C19_NoOpenClientWithoutOwner ==
    \A i \in 1..Len(clients) :
        ~clients[i].closed => (broker.state = "ready" /\ broker.session = i)

----------------------------------------------------------------------------
(* C20: the retry state of concurrent calls *)

\* what a call with this policy has come to after these outcomes of its own attempts,
\* whatever else happened on the executor: ended or not, and how
OwnEnd(policy, outcomes) ==
    LET n == Len(outcomes)
        ended == /\ n > 0
                 /\ \/ ~Fails(outcomes[n])
                    \/ ~RetryableFor(policy.retry, ErrorOf(outcomes[n]))
                    \/ n >= policy.stop
    IN  [done |-> ended,
         result |-> IF ~ended THEN ""
                    ELSE IF Fails(outcomes[n]) THEN "raised" ELSE "returned",
         error |-> IF ended /\ Fails(outcomes[n]) THEN ErrorOf(outcomes[n]) ELSE NoError]

\* the outcomes of the attempts of a call: those of the transport, then the
\* RuntimeError of each attempt made after the client was closed
Attempts(call) ==
    call.outcomes \o [i \in 1..call.unsent |-> Throws("RuntimeError")]

\* C20: in every interleaving of two or more concurrent calls on one executor with
\* backoff enabled, the retry state is per call: each call invokes the transport at
\* most its own max_attempts times, and whether it returns or raises, and which error
\* it raises, is determined by the outcomes of its own attempts alone.
C20_RetryStatePerCall ==
    broker.enable_backoff =>
        \A c \in DOMAIN calls :
            LET call == calls[c]
                own == OwnEnd(call.policy, Attempts(call))
            IN  call.pc # "idle" =>
                    /\ Counted(call)
                    /\ call.invocations <= call.policy.stop
                    /\ call.attempt_number <= call.policy.stop
                    /\ (call.pc = "done") = own.done
                    /\ call.result = own.result
                    /\ call.error = own.error

\* two calls with different limits ran side by side: one was exhausted after three
\* attempts while the other, begun during its delay, raised after its only attempt
C20_Witness ==
    /\ broker.enable_backoff
    /\ calls[1].policy.stop = 3
    /\ calls[1].invocations = 3
    /\ calls[1].result = "raised"
    /\ calls[1].error = Error("HTTPStatusError", 503)
    /\ calls[2].policy.stop = 1
    /\ 1 \in calls[2].beside
    /\ calls[2].invocations = 1
    /\ calls[2].error = Error("HTTPStatusError", 503)

----------------------------------------------------------------------------
(* One call on either executor under every retry override, with and without    *)
(* per-call headers.                                                           *)

EquivRetryKwargs ==
    {RetryKwargs(keys, retry, stop, "none") :
        keys \in {{}, {"retry"}, {"stop", "wait"}, {"retry", "stop", "wait"}},
        retry \in {"always", "never", "retry_always"},
        stop \in 1..MaxStop}

EquivCtorArgs ==
    {CtorArgs(BaseUrl, headers, TRUE, enable_backoff, FALSE, TRUE, PyNone, NoMounts) :
        headers \in {NoneDict, DictOf("Accept" :> "json")},
        enable_backoff \in BOOLEAN}

EquivHeaders == {NoneDict, DictOf("X-Trace" :> "1")}

EquivOutcomes == {Responds(200), Responds(404), Responds(503), Throws("ConnectError")}

InitEquiv == Start(EmptyMap, EmptyMap)

NextEquiv ==
    \/ \E a \in EquivCtorArgs :
        \/ ConstructBroker(a)
        \/ ConstructAsyncBroker(a)
    \/ \E c \in DOMAIN calls, headers \in EquivHeaders, rk \in EquivRetryKwargs :
        StartRequest(c, "GET", Endpoint, headers, rk)
    \/ \E c \in DOMAIN calls : SendRequest(c)
    \/ \E c \in DOMAIN calls, outcome \in EquivOutcomes : Receive(c, outcome)
    \/ \E c \in DOMAIN calls : Wake(c)

SpecEquiv == InitEquiv /\ [][NextEquiv]_vars

----------------------------------------------------------------------------
(* C21: the two executors on the request path *)

\* what the caller and the transport see of a call: whether it has ended and how, and
\* how often the transport was invoked
Observed(ended, result, status, error, invocations) ==
    [ended |-> ended, result |-> result, status |-> status, error |-> error,
     invocations |-> invocations]

RECURSIVE RunOn(_, _, _, _, _)

\* the call of an executor of this kind, from attempt attempt_number on, fed these
\* transport outcomes one per attempt
RunOn(kind, enable_backoff, policy, attempt_number, outcomes) ==
    IF outcomes = <<>>
    THEN Observed(FALSE, "", 0, NoError, attempt_number - 1)
    ELSE LET exc == do_request(Head(outcomes))
             how == DecideOn(kind, enable_backoff, policy, attempt_number, exc)
         IN  CASE how = "sleep" ->
                    RunOn(kind, enable_backoff, policy, attempt_number + 1, Tail(outcomes))
               [] how = "return" ->
                    Observed(TRUE, "returned", Head(outcomes).status, NoError,
                             attempt_number)
               [] how = "raise" ->
                    Observed(TRUE, "raised", 0, exc, attempt_number)
               [] OTHER ->
                    Observed(TRUE, "raised RetryError", 0, exc, attempt_number)

OtherKind(kind) == IF kind = "sync" THEN "async" ELSE "sync"

\* C21 (as stated): the synchronous and the asynchronous executor are equivalent on
\* the request path: for the same configuration (backoff flag, per-call retry, stop
\* and wait overrides, headers) and the same sequence of transport outcomes, both
\* invoke the transport the same number of times with the same URL and headers, and
\* both end in the same result, the same response or the same error.  Compared
\* whenever the transport has answered every request it was given.
C21_SyncAsyncEquivalent ==
    \A c \in DOMAIN calls :
        LET call == calls[c]
        IN  call.pc \notin {"idle", "waiting"} =>
                /\ Observed(call.pc = "done", call.result, call.status, call.error,
                            call.invocations)
                        = RunOn(OtherKind(broker.kind), broker.enable_backoff,
                                call.policy, 1, call.outcomes)
                /\ call.url = JoinUrl(ctor_args.base_url, call.endpoint)
                /\ call.headers = SentHeaders(call.headers_arg, DefaultsOf(ctor_args))

====
